---- MODULE Spec2Model ----
(***************************************************************************)
(* The observation/query bridge of csneps-robotics-inference:              *)
(* src/src/python-bridge/csri_client.py, class CSNeRSClient and the        *)
(* module-level helpers.  Every call of a client method is an asyncio      *)
(* coroutine; a coroutine runs without interruption from one `await        *)
(* asyncio.sleep(...)` to the next, so one action of this model is one     *)
(* such uninterrupted segment.                                             *)
(***************************************************************************)
EXTENDS Integers, Sequences, FiniteSets, TLC

\* ------------------------------------------------------------------ bounds

\* number of coroutine slots (calls that can be in flight at the same time)
NumTasks == 2
\* number of CSNeRSClient instances
NumClients == 2
\* wall clock (milliseconds) runs from 0 to MaxClock
MaxClock == 1
\* BeliefQuery.limit ranges over -NegLimit .. MaxLimit
MaxLimit == 5
NegLimit == 1
\* JustificationQuery.max_depth ranges over 1 .. MaxDepth
MaxDepth == 3
\* belief ids are the character sequences of length <= MaxIdLen
MaxIdLen == 1

Tasks == 1..NumTasks
Clients == 1..NumClients
Limits == (0 - NegLimit)..MaxLimit
Depths == 1..MaxDepth

\* ------------------------------------------------------------- input values

\* the four observation classes, and one value that is none of them
Variants == {"LoopClosure", "AppearanceMatch", "GNCEvent", "MedicalFinding"}
OtherValues == {"str"}

\* the concepts a query can name: the three the backend knows and one other
Concepts == {"HighConfidenceLandmark", "Hypothesis", "Recommendation", "Unknown"}

\* characters of a belief id: a letter, the double quote and the backslash
Chars == {"x", "\"", "\\"}

RECURSIVE SeqsUpTo(_, _)
SeqsUpTo(S, n) ==
    IF n = 0 THEN {<<>>}
    ELSE LET shorter == SeqsUpTo(S, n - 1)
         IN  shorter \cup {Append(s, c) : s \in shorter, c \in S}

BeliefIds == SeqsUpTo(Chars, MaxIdLen)

\* the exceptions the simulated gRPC calls can raise (SpecFault only)
Exceptions == {"UNAVAILABLE", "DEADLINE_EXCEEDED"}

\* ----------------------------------------------------------------- state

VARIABLES
    connected,  \* connected[c]: CSNeRSClient._connected of client c
    clock,      \* time.time() * 1000 / datetime.now()
    tasks,      \* tasks[t]: the coroutine in slot t
    history,    \* what has happened so far to each client (for the
                \* properties only: no action reads it)
    demo,       \* the run of demo_all.py: CSNeRSDemoRunner and main()
    perception  \* a GPUPerceptionService and its video stream loop

vars == <<connected, clock, tasks, history, demo, perception>>

\* ------------------------------------------------------- json.dumps / loads

\* json.dumps of a str: the quote and the backslash are escaped
RECURSIVE JsonEscape(_)
JsonEscape(s) ==
    IF s = <<>> THEN <<>>
    ELSE LET c == Head(s)
         IN  (IF c \in {"\"", "\\"} THEN <<"\\", c>> ELSE <<c>>)
             \o JsonEscape(Tail(s))

\* json.loads of a str: a backslash makes the next character literal
RECURSIVE JsonUnescape(_)
JsonUnescape(s) ==
    IF s = <<>> THEN <<>>
    ELSE IF Head(s) = "\\" /\ Len(s) >= 2
         THEN <<s[2]>> \o JsonUnescape(Tail(Tail(s)))
         ELSE <<Head(s)>> \o JsonUnescape(Tail(s))

\* json.dumps of an int, and json.loads of it
JsonInt(n) == <<ToString(n)>>
JsonParseInt(tok) == CHOOSE n \in 0..9 : JsonInt(n) = tok

\* a JSON object text is the set of its members; "{}" is the empty set
JsonGet(obj, key) == (CHOOSE m \in obj : m.key = key).val
JsonHas(obj, key) == \E m \in obj : m.key = key

\* ---------------------------------------------------------- data classes

NoneId == <<>>

NoOutcome ==
    [kind |-> "none", success |-> FALSE, message |-> <<>>,
     observation_id |-> NoneId, triggered_rules |-> <<>>,
     beliefs |-> <<>>, tree |-> {}]

\* an Optional[List[str]] argument: None, or a list
NoneRules == {}
Rules(list) == {list}

\* ObservationResponse.__post_init__: a triggered_rules of None becomes []
PostInit(triggered_rules) ==
    IF triggered_rules = NoneRules THEN <<>>
    ELSE CHOOSE list \in triggered_rules : TRUE

\* ObservationResponse(success, message, observation_id=None, triggered_rules=None)
ObservationResponse(success, message, observation_id, triggered_rules) ==
    [kind |-> "ObservationResponse", success |-> success, message |-> message,
     observation_id |-> observation_id,
     triggered_rules |-> PostInit(triggered_rules),
     beliefs |-> <<>>, tree |-> {}]

BeliefInfo(belief_id, belief_type, content, confidence, created_at) ==
    [belief_id |-> belief_id, belief_type |-> belief_type, content |-> content,
     confidence |-> confidence, created_at |-> created_at]

BeliefResponse(beliefs, success, message) ==
    [kind |-> "BeliefResponse", success |-> success, message |-> message,
     observation_id |-> NoneId, triggered_rules |-> <<>>,
     beliefs |-> beliefs, tree |-> {}]

JustificationResponse(justification_tree, success, message) ==
    [kind |-> "JustificationResponse", success |-> success, message |-> message,
     observation_id |-> NoneId, triggered_rules |-> <<>>,
     beliefs |-> <<>>, tree |-> justification_tree]

\* the value a plain coroutine returns: connect's bool, disconnect's None
Returned(kind, value) ==
    [kind |-> kind, success |-> value, message |-> <<>>,
     observation_id |-> NoneId, triggered_rules |-> <<>>,
     beliefs |-> <<>>, tree |-> {}]

\* an exception that leaves the coroutine
Raised(kind, text) ==
    [kind |-> kind, success |-> FALSE, message |-> text,
     observation_id |-> NoneId, triggered_rules |-> <<>>,
     beliefs |-> <<>>, tree |-> {}]

\* an Optional[datetime] argument: None, or a time
NoneTime == {}
Time(ts) == {ts}

\* (mutant) GNCEvent.__post_init__ assigns datetime.now() without the test
ObservationPostInitGNCAlwaysNow(variant, timestamp, now) ==
    IF variant = "GNCEvent" THEN now
    ELSE IF timestamp = NoneTime THEN now
    ELSE CHOOSE ts \in timestamp : TRUE

\* __post_init__ of LoopClosure, AppearanceMatch, GNCEvent and
\* MedicalFinding: the timestamp the new object holds
ObservationPostInit(variant, timestamp, now) ==
    CASE variant = "LoopClosure" ->
           IF timestamp = NoneTime THEN now ELSE CHOOSE ts \in timestamp : TRUE
      [] variant = "AppearanceMatch" ->
           IF timestamp = NoneTime THEN now ELSE CHOOSE ts \in timestamp : TRUE
      [] variant = "GNCEvent" ->
           IF timestamp = NoneTime THEN now ELSE CHOOSE ts \in timestamp : TRUE
      [] variant = "MedicalFinding" ->
           IF timestamp = NoneTime THEN now ELSE CHOOSE ts \in timestamp : TRUE

NoArgs ==
    [obs |-> "none", given |-> NoneTime, timestamp |-> 0,
     deadline |-> NoneTime, concept |-> "none", limit |-> 0,
     include_justification |-> FALSE, belief_id |-> <<>>, max_depth |-> 0]

IdleTask ==
    [pc |-> "idle", op |-> "none", via |-> "none", client |-> 1, args |-> NoArgs,
     startConn |-> FALSE, nconn |-> 0, connOk |-> FALSE, ndisp |-> 0,
     raised |-> "none", idx |-> 0, results |-> {}, disconnectRan |-> FALSE,
     out |-> NoOutcome]

\* ------------------------------------------------ the mocked backend calls

\* (mutant) the chain ends in a plain else: every other value is taken for
\* a MedicalFinding
SendObservationRouteNoElse(value) ==
    IF value = "LoopClosure" THEN "send_loop_closure"
    ELSE IF value = "AppearanceMatch" THEN "send_appearance_match"
    ELSE IF value = "GNCEvent" THEN "send_gnc_event"
    ELSE "send_medical_finding"

\* (mutant) the first two branches of the chain call each other's method
SendObservationRouteSwapped(value) ==
    IF value = "LoopClosure" THEN "send_appearance_match"
    ELSE IF value = "AppearanceMatch" THEN "send_loop_closure"
    ELSE IF value = "GNCEvent" THEN "send_gnc_event"
    ELSE IF value = "MedicalFinding" THEN "send_medical_finding"
    ELSE "ValueError"

\* send_observation's isinstance chain: the method a value is routed to
SendObservationRoute(value) ==
    IF value = "LoopClosure" THEN "send_loop_closure"
    ELSE IF value = "AppearanceMatch" THEN "send_appearance_match"
    ELSE IF value = "GNCEvent" THEN "send_gnc_event"
    ELSE IF value = "MedicalFinding" THEN "send_medical_finding"
    ELSE "ValueError"

SendOps ==
    {"send_loop_closure", "send_appearance_match", "send_gnc_event",
     "send_medical_finding"}

\* the observation class each send_* method is declared to take
VariantOf(op) ==
    CASE op = "send_loop_closure" -> "LoopClosure"
      [] op = "send_appearance_match" -> "AppearanceMatch"
      [] op = "send_gnc_event" -> "GNCEvent"
      [] op = "send_medical_finding" -> "MedicalFinding"

\* f"obs_{int(time.time() * 1000)}"
ObsId(now) == <<"obs", now>>

\* (mutant) the mock response is built without an observation_id
MockObservationResponseNoId(op, now) ==
    ObservationResponse(TRUE,
        IF op = "send_loop_closure"
        THEN <<"Loop closure processed successfully">>
        ELSE IF op = "send_appearance_match"
        THEN <<"Appearance match processed successfully">>
        ELSE IF op = "send_gnc_event"
        THEN <<"GNC event processed successfully">>
        ELSE <<"Medical finding processed successfully">>,
        NoneId, NoneRules)

\* (mutant) every method answers with send_loop_closure's response
MockObservationResponseLoopClosureOnly(op, now) ==
    ObservationResponse(TRUE, <<"Loop closure processed successfully">>,
                        <<"obs", now>>, Rules(<<"slam-rule-1", "slam-rule-2">>))

\* the mock response each send_* method builds after its simulated call
MockObservationResponse(op, now) ==
    CASE op = "send_loop_closure" ->
           ObservationResponse(TRUE, <<"Loop closure processed successfully">>,
                               ObsId(now), Rules(<<"slam-rule-1", "slam-rule-2">>))
      [] op = "send_appearance_match" ->
           ObservationResponse(TRUE, <<"Appearance match processed successfully">>,
                               ObsId(now), Rules(<<"slam-rule-2", "slam-rule-3">>))
      [] op = "send_gnc_event" ->
           ObservationResponse(TRUE, <<"GNC event processed successfully">>,
                               ObsId(now), Rules(<<"gnc-rule-1", "gnc-rule-2">>))
      [] op = "send_medical_finding" ->
           ObservationResponse(TRUE, <<"Medical finding processed successfully">>,
                               ObsId(now), Rules(<<"medical-rule-1", "medical-rule-3">>))

\* (mutant) the branch for landmarks is the final else: every concept that
\* is neither Hypothesis nor Recommendation gets the landmarks
MockBeliefsDefaultLandmarks(concept, now) ==
    IF concept = "Hypothesis" THEN
        << BeliefInfo("hypothesis-1", "Hypothesis",
                      {[key |-> "event_type", val |-> <<"thruster_anomaly">>],
                       [key |-> "hypothesis", val |-> <<"performance_degradation">>]},
                      72, now) >>
    ELSE IF concept = "Recommendation" THEN
        << BeliefInfo("recommendation-1", "Recommendation",
                      {[key |-> "finding_type", val |-> <<"lesion">>],
                       [key |-> "action", val |-> <<"biopsy">>],
                       [key |-> "priority", val |-> <<"urgent">>]}, 91, now) >>
    ELSE
        << BeliefInfo("landmark-1", "HighConfidenceLandmark",
                      {[key |-> "landmark_id", val |-> <<"L001">>],
                       [key |-> "confidence", val |-> <<"0.85">>]}, 85, now),
           BeliefInfo("landmark-2", "HighConfidenceLandmark",
                      {[key |-> "landmark_id", val |-> <<"L002">>],
                       [key |-> "confidence", val |-> <<"0.91">>]}, 91, now) >>

\* mock_beliefs of query_beliefs: the list the backend holds for a concept
MockBeliefs(concept, now) ==
    IF concept = "HighConfidenceLandmark" THEN
        << BeliefInfo("landmark-1", "HighConfidenceLandmark",
                      {[key |-> "landmark_id", val |-> <<"L001">>],
                       [key |-> "confidence", val |-> <<"0.85">>]}, 85, now),
           BeliefInfo("landmark-2", "HighConfidenceLandmark",
                      {[key |-> "landmark_id", val |-> <<"L002">>],
                       [key |-> "confidence", val |-> <<"0.91">>]}, 91, now) >>
    ELSE IF concept = "Hypothesis" THEN
        << BeliefInfo("hypothesis-1", "Hypothesis",
                      {[key |-> "event_type", val |-> <<"thruster_anomaly">>],
                       [key |-> "hypothesis", val |-> <<"performance_degradation">>]},
                      72, now) >>
    ELSE IF concept = "Recommendation" THEN
        << BeliefInfo("recommendation-1", "Recommendation",
                      {[key |-> "finding_type", val |-> <<"lesion">>],
                       [key |-> "action", val |-> <<"biopsy">>],
                       [key |-> "priority", val |-> <<"urgent">>]}, 91, now) >>
    ELSE <<>>

\* (mutant) the slice is taken from the wrong end: seq[n:]
PySliceFrom(seq, n) ==
    IF n >= 0
    THEN SubSeq(seq, (IF n < Len(seq) THEN n ELSE Len(seq)) + 1, Len(seq))
    ELSE SubSeq(seq, (IF Len(seq) + n > 0 THEN Len(seq) + n ELSE 0) + 1, Len(seq))

\* (mutant) the slice keeps one item too many: seq[:n + 1]
PySliceOffByOne(seq, n) ==
    SubSeq(seq, 1, IF n + 1 < Len(seq) THEN n + 1 ELSE Len(seq))

\* Python's seq[:n]: the first n items, or all but the last -n when n < 0
PySlice(seq, n) ==
    IF n >= 0
    THEN SubSeq(seq, 1, IF n < Len(seq) THEN n ELSE Len(seq))
    ELSE SubSeq(seq, 1, IF Len(seq) + n > 0 THEN Len(seq) + n ELSE 0)

\* (mutant) the client puts the most confident belief first before it
\* truncates
MockBeliefResponseSorted(args, now) ==
    LET all == MockBeliefs(args.concept, now)
        sorted == IF Len(all) = 2 /\ all[1].confidence < all[2].confidence
                  THEN <<all[2], all[1]>> ELSE all
    IN  BeliefResponse(SubSeq(sorted, 1,
                              IF args.limit < 0 THEN 0
                              ELSE IF args.limit < Len(sorted) THEN args.limit
                              ELSE Len(sorted)),
                       TRUE, <<"Query executed successfully">>)

\* (mutant) with include_justification the client expands a justification
\* into the content of every belief it returns
MockBeliefResponseInline(args, now) ==
    LET found == PySlice(MockBeliefs(args.concept, now), args.limit)
    IN  BeliefResponse(
            [i \in 1..Len(found) |->
                IF args.include_justification
                THEN [found[i] EXCEPT !.content =
                         @ \cup {[key |-> "justification",
                                  val |-> <<"observation", "rule-1", "conclusion">>]}]
                ELSE found[i]],
            TRUE, <<"Query executed successfully">>)

\* the response query_beliefs builds after its simulated call
MockBeliefResponse(args, now) ==
    BeliefResponse(PySlice(MockBeliefs(args.concept, now), args.limit),
                   TRUE, <<"Query executed successfully">>)

\* (mutant) the canned justification names a fixed belief
MockJustificationFixedId(args) ==
    { [key |-> "belief_id", val |-> <<"l", "a", "n", "d", "m", "a", "r", "k", "-", "1">>],
      [key |-> "rule_path", val |-> <<"observation", "rule-1", "conclusion">>],
      [key |-> "premises",
       val |-> <<"loop-closure-score > 0.8", "consistent-appearance">>],
      [key |-> "confidence", val |-> <<"0.85">>],
      [key |-> "depth", val |-> <<"2">>] }

\* the justification dict of get_justification, as json.dumps writes it
MockJustification(args) ==
    { [key |-> "belief_id", val |-> JsonEscape(args.belief_id)],
      [key |-> "rule_path", val |-> <<"observation", "rule-1", "conclusion">>],
      [key |-> "premises",
       val |-> <<"loop-closure-score > 0.8", "consistent-appearance">>],
      [key |-> "confidence", val |-> <<"0.85">>],
      [key |-> "depth", val |-> JsonInt(2)] }

\* the response get_justification builds after its simulated call
MockJustificationResponse(args) ==
    JustificationResponse(MockJustification(args), TRUE,
                          <<"Justification retrieved successfully">>)

\* what a method returns once its simulated call has come back
MockResponse(op, args, now) ==
    IF op \in SendOps THEN MockObservationResponse(op, now)
    ELSE IF op = "query_beliefs" THEN MockBeliefResponse(args, now)
    ELSE MockJustificationResponse(args)

\* what a method returns when its implicit connect() returned False
NotConnectedResponse(op) ==
    IF op \in SendOps
    THEN ObservationResponse(FALSE, <<"Not connected to CSNePS server">>,
                             NoneId, NoneRules)
    ELSE IF op = "query_beliefs"
    THEN BeliefResponse(<<>>, FALSE, <<"Not connected to CSNePS server">>)
    ELSE JustificationResponse({}, FALSE, <<"Not connected to CSNePS server">>)

\* (mutant) the except branch reports a failure without str(e)
ErrorResponseNoText(op, e) ==
    IF op \in SendOps
    THEN ObservationResponse(FALSE, <<"Error sending observation">>,
                             NoneId, NoneRules)
    ELSE IF op = "query_beliefs"
    THEN BeliefResponse(<<>>, FALSE, <<"Error querying beliefs">>)
    ELSE JustificationResponse({}, FALSE, <<"Error getting justification">>)

\* what a method's `except Exception as e` branch returns
ErrorResponse(op, e) ==
    IF op \in SendOps
    THEN ObservationResponse(FALSE, <<"Error sending observation: ", e>>,
                             NoneId, NoneRules)
    ELSE IF op = "query_beliefs"
    THEN BeliefResponse(<<>>, FALSE, <<"Error querying beliefs: ", e>>)
    ELSE JustificationResponse({}, FALSE, <<"Error getting justification: ", e>>)

\* ---------------------------------------------------------------- actions

\* print_summary has not run
NoSummary == [total |-> 0 - 1, successful |-> 0 - 1]

\* demo_all.py is not running
DemoOff ==
    [pc |-> "off", domain |-> "none", step |-> 0, results |-> <<>>,
     setupOk |-> FALSE, queriedAll |-> FALSE, justified |-> FALSE,
     summary |-> NoSummary, cleaned |-> FALSE, exit |-> 0 - 1]

\* ------------------------------------------- gpu_perception_service.py

\* frames a service processes in a run
MaxFrames == 3

\* predictions the model returns for one frame
MaxPreds == 2

\* confidences, in percent
ConfidenceLevels == {30, 50, 70}

\* PerceptionConfig.confidence_threshold, in percent (default 0.5)
Thresholds == {50, 70}

\* results.pred[0]: the confidences of the predictions of one frame
Predictions ==
    UNION {[1..n -> ConfidenceLevels] : n \in 0..MaxPreds}

\* no GPUPerceptionService has been constructed
PerceptionOff ==
    [constructed |-> FALSE, confidence_threshold |-> 0,
     frame_count |-> 0, total_detections |-> 0,
     pred |-> <<>>, failed |-> FALSE, detections |-> <<>>,
     calls |-> 0, returned |-> 0,
     stream |-> "idle", loop |-> FALSE, display_enabled |-> FALSE,
     scheduled |-> 0, reason |-> "none"]

\* (mutant) _parse_results without the threshold test
ParseResultsUnfiltered(pred, threshold, frame_count) ==
    [i \in 1..Len(pred) |-> [confidence |-> pred[i], frame_id |-> frame_count]]

\* _parse_results: the predictions at or above the threshold, in order, each
\* with float(conf) and the current frame counter
ParseResults(pred, threshold, frame_count) ==
    LET kept == SelectSeq(pred, LAMBDA conf : conf >= threshold)
    IN  [i \in 1..Len(kept) |->
            [confidence |-> kept[i], frame_id |-> frame_count]]

\* (mutant) process_frame counting the frame after a successful inference
ProcessFrameCountOnSuccess(p, pred, fails) ==
    IF fails
    THEN [p EXCEPT !.pred = pred, !.failed = TRUE, !.detections = <<>>,
                   !.calls = @ + 1]
    ELSE LET detections == ParseResults(pred, p.confidence_threshold,
                                        p.frame_count + 1)
         IN  [p EXCEPT !.frame_count = @ + 1,
                       !.total_detections = @ + Len(detections),
                       !.pred = pred, !.failed = FALSE,
                       !.detections = detections,
                       !.calls = @ + 1, !.returned = @ + Len(detections)]

\* process_frame: the service after the call; .detections is what the call
\* returns. `fails`: _prepare_input, the model or _parse_results raises.
\* calls, returned, pred and failed record the call for the properties.
ProcessFrame(p, pred, fails) ==
    LET counted == [p EXCEPT !.frame_count = @ + 1, !.calls = @ + 1,
                             !.pred = pred, !.failed = fails]
    IN  IF fails
        THEN [counted EXCEPT !.detections = <<>>]
        ELSE LET detections == ParseResults(pred, counted.confidence_threshold,
                                            counted.frame_count)
             IN  [counted EXCEPT !.total_detections = @ + Len(detections),
                                 !.detections = detections,
                                 !.returned = @ + Len(detections)]

Init ==
    /\ perception = PerceptionOff
    /\ connected = [c \in Clients |-> FALSE]
    /\ clock = 0
    /\ tasks = [t \in Tasks |-> IdleTask]
    /\ history = {}
    /\ demo = DemoOff

\* a new call takes the lowest free coroutine slot
FreeSlot(t) ==
    /\ tasks[t].pc = "idle"
    /\ \A u \in Tasks : u < t => tasks[u].pc # "idle"

\* (mutant) the list of query_all_concepts names Hypothesis twice
QueryConceptsRepeated == <<"HighConfidenceLandmark", "Hypothesis", "Hypothesis">>

\* `concepts` of query_all_concepts
QueryConcepts == <<"HighConfidenceLandmark", "Hypothesis", "Recommendation">>

\* the client method whose body the coroutine is in
InnerOp(task) ==
    IF task.op = "query_all_concepts" THEN "query_beliefs" ELSE task.op

\* A request method returns out.  Called directly, that ends the call.  In
\* query_all_concepts, `results[concept] = await client.query_beliefs(query)`
\* stores it, and the loop either ends (return results) or calls
\* query_beliefs for the next concept, which runs up to its first await: into
\* connect() when the client needs to connect, else into the simulated call.
Finish(task, out, need) ==
    IF task.op # "query_all_concepts"
    THEN [task EXCEPT !.pc = "done", !.out = out]
    ELSE LET results == {r \in task.results : r.concept # task.args.concept}
                            \cup {[concept |-> task.args.concept, response |-> out]}
         IN  IF task.idx + 1 >= Len(QueryConcepts)
             THEN [task EXCEPT !.pc = "done", !.idx = @ + 1, !.results = results,
                               !.out = Returned("dict", TRUE)]
             ELSE [task EXCEPT !.pc = IF need THEN "connecting" ELSE "dispatching",
                               !.idx = @ + 1, !.results = results,
                               !.args = [@ EXCEPT !.concept = QueryConcepts[task.idx + 2]],
                               !.nconn = IF need THEN @ + 1 ELSE @,
                               !.ndisp = IF need THEN @ ELSE @ + 1]

\* (mutant) the request methods connect without looking at self._connected
NeedsConnectAlways(c) == TRUE

\* the guard `if not self._connected:` that opens every request method
NeedsConnect(c) == ~connected[c]

\* A request method from its first line to its first await: either connect()
\* is entered and suspends in its simulated connection delay, or the try
\* block is entered and suspends in the simulated gRPC call.
Started(c, op, via, args) ==
    IF NeedsConnect(c)
    THEN [IdleTask EXCEPT !.pc = "connecting", !.op = op, !.via = via,
                          !.client = c, !.args = args,
                          !.startConn = connected[c], !.nconn = 1]
    ELSE [IdleTask EXCEPT !.pc = "dispatching", !.op = op, !.via = via,
                          !.client = c, !.args = args,
                          !.startConn = connected[c], !.ndisp = 1]

\* a caller awaits a request method: the coroutine takes a slot
StartRequest(t, c, op, via, args) ==
    /\ FreeSlot(t)
    /\ tasks' = [tasks EXCEPT ![t] = Started(c, op, via, args)]
    /\ UNCHANGED <<connected, clock, history, demo, perception>>

\* await client.send_loop_closure(o) and its three siblings
CallSend(t, c) ==
    \E op \in SendOps :
        StartRequest(t, c, op, "direct", [NoArgs EXCEPT !.obs = VariantOf(op)])

\* await send_observation(client, value)
CallSendObservation(t, c) ==
    \E v \in Variants \cup OtherValues :
        IF SendObservationRoute(v) = "ValueError"
        THEN /\ FreeSlot(t)
             /\ tasks' = [tasks EXCEPT ![t] =
                  [IdleTask EXCEPT !.pc = "done", !.op = "send_observation",
                                   !.via = "send_observation", !.client = c,
                                   !.args = [NoArgs EXCEPT !.obs = v],
                                   !.startConn = connected[c],
                                   !.out = Raised("ValueError",
                                       <<"Unsupported observation type: ", v>>)]]
             /\ UNCHANGED <<connected, clock, history, demo, perception>>
        ELSE StartRequest(t, c, SendObservationRoute(v), "send_observation",
                          [NoArgs EXCEPT !.obs = v])

\* await client.query_beliefs(BeliefQuery(concept, limit, include_justification))
CallQueryBeliefs(t, c) ==
    \E k \in Concepts, n \in Limits, j \in BOOLEAN :
        StartRequest(t, c, "query_beliefs", "direct",
                     [NoArgs EXCEPT !.concept = k, !.limit = n,
                                    !.include_justification = j])

\* await client.get_justification(JustificationQuery(belief_id, max_depth))
CallGetJustification(t, c) ==
    \E b \in BeliefIds, d \in Depths :
        StartRequest(t, c, "get_justification", "direct",
                     [NoArgs EXCEPT !.belief_id = b, !.max_depth = d])

\* await query_all_concepts(client, limit): up to the first await of its
\* first query_beliefs call
CallQueryAllConcepts(t, c) ==
    \E n \in Limits :
        StartRequest(t, c, "query_all_concepts", "query_all_concepts",
                     [NoArgs EXCEPT !.concept = QueryConcepts[1], !.limit = n])

\* await client.connect(): up to the simulated connection delay.  There is
\* no test of self._connected before it.
StartedConnect(c) ==
    [IdleTask EXCEPT !.pc = "connecting", !.op = "connect",
                     !.via = "direct", !.client = c,
                     !.startConn = connected[c], !.nconn = 1]

\* a caller awaits connect(): the coroutine takes a slot
CallConnect(t, c) ==
    /\ FreeSlot(t)
    /\ tasks' = [tasks EXCEPT ![t] = StartedConnect(c)]
    /\ UNCHANGED <<connected, clock, history, demo, perception>>

\* (mutant) the request methods await connect() and ignore what it returns
AfterConnectUnchecked(task, ok) ==
    IF task.op = "connect"
    THEN [task EXCEPT !.pc = "done", !.connOk = ok,
                      !.out = Returned("bool", ok)]
    ELSE [task EXCEPT !.pc = "dispatching", !.connOk = ok, !.ndisp = @ + 1]

\* Where a coroutine goes when connect() returns ok.  connect() called by
\* the caller returns ok to it.  In a request method,
\* `if not await self.connect(): return <not connected response>`, and
\* otherwise the try block follows and suspends in the simulated call.
AfterConnect(task, ok) ==
    IF task.op = "connect"
    THEN [task EXCEPT !.pc = "done", !.connOk = ok,
                      !.out = Returned("bool", ok)]
    ELSE IF ok
    THEN [task EXCEPT !.pc = "dispatching", !.connOk = ok, !.ndisp = @ + 1]
    ELSE Finish([task EXCEPT !.connOk = ok],
                NotConnectedResponse(InnerOp(task)), TRUE)

\* (mutant) connect() returns True without setting self._connected
ConnectReturnNoFlag(t) ==
    /\ tasks[t].pc = "connecting"
    /\ tasks' = [tasks EXCEPT ![t] = AfterConnect(tasks[t], TRUE)]
    /\ UNCHANGED <<connected, clock, history, demo, perception>>

\* connect() after its delay: self._connected = True; return True
ConnectReturn(t) ==
    /\ tasks[t].pc = "connecting"
    /\ connected' = [connected EXCEPT ![tasks[t].client] = TRUE]
    /\ tasks' = [tasks EXCEPT ![t] = AfterConnect(tasks[t], TRUE)]
    /\ UNCHANGED <<clock, history, demo, perception>>

\* (mutant) `self._connected = False` is indented under `if self._channel:`,
\* and self._channel is always None
CallDisconnectIfChannel(t, c) ==
    /\ FreeSlot(t)
    /\ tasks' = [tasks EXCEPT ![t] =
         [IdleTask EXCEPT !.pc = "done", !.op = "disconnect",
                          !.via = "direct", !.client = c,
                          !.startConn = connected[c],
                          !.out = Returned("None", FALSE)]]
    /\ UNCHANGED <<connected, clock, history, demo, perception>>

\* (mutant) _connected is an attribute of the class, shared by the instances
CallDisconnectShared(t, c) ==
    /\ FreeSlot(t)
    /\ connected' = [d \in Clients |-> FALSE]
    /\ tasks' = [tasks EXCEPT ![t] =
         [IdleTask EXCEPT !.pc = "done", !.op = "disconnect",
                          !.via = "direct", !.client = c,
                          !.startConn = connected[c],
                          !.out = Returned("None", FALSE)]]
    /\ UNCHANGED <<clock, history, demo, perception>>

\* a call that is suspended while disconnect() runs on its client c (noted
\* for the properties only: no action reads it)
Overtaken(task, c) ==
    IF task.client = c /\ task.pc \in {"connecting", "dispatching"}
    THEN [task EXCEPT !.disconnectRan = TRUE]
    ELSE task

\* await client.disconnect(): it has no await, so it runs in one piece
CallDisconnect(t, c) ==
    /\ FreeSlot(t)
    /\ connected' = [connected EXCEPT ![c] = FALSE]
    /\ tasks' = [u \in Tasks |->
         IF u = t
         THEN [IdleTask EXCEPT !.pc = "done", !.op = "disconnect",
                               !.via = "direct", !.client = c,
                               !.startConn = connected[c],
                               !.out = Returned("None", FALSE)]
         ELSE Overtaken(tasks[u], c)]
    /\ UNCHANGED <<clock, history, demo, perception>>

\* (mutant) the awaited simulated call never completes
DispatchReturnNever(t) ==
    /\ tasks[t].pc = "dispatching"
    /\ UNCHANGED <<connected, clock, tasks, history, demo, perception>>

\* a request method after its simulated call: build the response, return it
DispatchReturn(t) ==
    /\ tasks[t].pc = "dispatching"
    /\ tasks' = [tasks EXCEPT ![t] =
         Finish(tasks[t], MockResponse(InnerOp(tasks[t]), tasks[t].args, clock),
                NeedsConnect(tasks[t].client))]
    /\ history' = history \cup
         (IF tasks'[t].op = "send_loop_closure" /\ tasks'[t].out.success
          THEN {[client |-> tasks[t].client, event |-> "LoopClosure accepted"]}
          ELSE {})
    /\ UNCHANGED <<connected, clock, demo, perception>>

\* the caller takes the result; the slot is free for the next call
Return(t) ==
    /\ tasks[t].pc = "done"
    /\ tasks' = [tasks EXCEPT ![t] = IdleTask]
    /\ UNCHANGED <<connected, clock, history, demo, perception>>

\* a millisecond passes
Tick ==
    /\ clock < MaxClock
    /\ clock' = clock + 1
    /\ UNCHANGED <<connected, tasks, history, demo, perception>>

\* (mutant) the except branch of connect() returns False and leaves
\* self._connected as it was
ConnectRaiseKeepsFlag(t) ==
    /\ tasks[t].pc = "connecting"
    /\ tasks' = [tasks EXCEPT ![t] = AfterConnect(tasks[t], FALSE)]
    /\ history' = history \cup
         {[client |-> tasks[t].client, event |-> "connect returned False"]}
    /\ UNCHANGED <<connected, clock, demo, perception>>

\* connect()'s `except Exception`: the call inside the try block raised;
\* self._connected = False; return False
ConnectRaise(t) ==
    /\ tasks[t].pc = "connecting"
    /\ connected' = [connected EXCEPT ![tasks[t].client] = FALSE]
    /\ tasks' = [tasks EXCEPT ![t] = AfterConnect(tasks[t], FALSE)]
    /\ history' = history \cup
         {[client |-> tasks[t].client, event |-> "connect returned False"]}
    /\ UNCHANGED <<clock, demo, perception>>

\* (mutant) the except branch makes the simulated call once more before it
\* gives up
DispatchRaiseRetry(t) ==
    \E e \in Exceptions :
        /\ tasks[t].pc = "dispatching"
        /\ tasks' = [tasks EXCEPT ![t] =
             IF tasks[t].ndisp < 2
             THEN [tasks[t] EXCEPT !.raised = e, !.ndisp = @ + 1]
             ELSE [tasks[t] EXCEPT !.pc = "done", !.raised = e,
                                   !.out = ErrorResponse(tasks[t].op, e)]]
        /\ UNCHANGED <<connected, clock, history, demo, perception>>

\* a request method's `except Exception as e`: the simulated call raised e
DispatchRaise(t) ==
    \E e \in Exceptions :
        /\ tasks[t].pc = "dispatching"
        /\ tasks' = [tasks EXCEPT ![t] =
             Finish([tasks[t] EXCEPT !.raised = e],
                    ErrorResponse(InnerOp(tasks[t]), e),
                    NeedsConnect(tasks[t].client))]
        /\ UNCHANGED <<connected, clock, history, demo, perception>>

\* the coroutines already started run on
Progress ==
    \/ \E t \in Tasks : ConnectReturn(t)
    \/ \E t \in Tasks : DispatchReturn(t)
    \/ \E t \in Tasks : Return(t)

\* Concurrent callers of one client's connection and submission methods
\* (asyncio.gather over send_* calls, with connect and disconnect calls
\* among them); the simulated calls never raise.
Next ==
    \/ \E t \in Tasks : CallSend(t, 1)
    \/ \E t \in Tasks : CallSendObservation(t, 1)
    \/ \E t \in Tasks : CallConnect(t, 1)
    \/ \E t \in Tasks : CallDisconnect(t, 1)
    \/ Progress

Spec == Init /\ [][Next]_vars

\* no call is in flight
AllIdle == \A t \in Tasks : tasks[t].pc = "idle"

\* One caller that awaits each call before it makes the next, using every
\* method of one client, while the clock runs.
NextSeq ==
    \/ AllIdle /\ \E t \in Tasks : CallSend(t, 1)
    \/ AllIdle /\ \E t \in Tasks : CallSendObservation(t, 1)
    \/ AllIdle /\ \E t \in Tasks : CallQueryBeliefs(t, 1)
    \/ AllIdle /\ \E t \in Tasks : CallGetJustification(t, 1)
    \/ AllIdle /\ \E t \in Tasks : CallQueryAllConcepts(t, 1)
    \/ AllIdle /\ \E t \in Tasks : CallConnect(t, 1)
    \/ AllIdle /\ \E t \in Tasks : CallDisconnect(t, 1)
    \/ Progress
    \/ Tick

SpecSeq == Init /\ [][NextSeq]_vars

\* The same caller when the calls inside the try blocks can raise.
NextFault ==
    \/ NextSeq
    \/ \E t \in Tasks : ConnectRaise(t)
    \/ \E t \in Tasks : DispatchRaise(t)

SpecFault == Init /\ [][NextFault]_vars

\* await client.query_beliefs(BeliefQuery("HighConfidenceLandmark", limit=5))
CallQueryLandmarks(t, c) ==
    StartRequest(t, c, "query_beliefs", "direct",
                 [NoArgs EXCEPT !.concept = "HighConfidenceLandmark",
                                !.limit = MaxLimit])

\* await client.get_justification(JustificationQuery(belief_id, max_depth))
\* with the longest id and the largest max_depth
CallJustify(t, c) ==
    \E b \in BeliefIds :
        /\ Len(b) = MaxIdLen
        /\ StartRequest(t, c, "get_justification", "direct",
                        [NoArgs EXCEPT !.belief_id = b, !.max_depth = MaxDepth])

\* Callers of several client instances at once: each call is made on one
\* of the instances.
NextTwo ==
    \/ \E t \in Tasks, c \in Clients : CallSend(t, c)
    \/ \E t \in Tasks, c \in Clients : CallQueryLandmarks(t, c)
    \/ \E t \in Tasks, c \in Clients : CallJustify(t, c)
    \/ \E t \in Tasks, c \in Clients : CallConnect(t, c)
    \/ \E t \in Tasks, c \in Clients : CallDisconnect(t, c)
    \/ Progress

SpecTwo == Init /\ [][NextTwo]_vars

\* Concurrent callers of one client when the call inside connect()'s try
\* block can raise.
NextRace ==
    \/ Next
    \/ \E t \in Tasks : ConnectRaise(t)

SpecRace == Init /\ [][NextRace]_vars

\* Concurrent callers of every awaiting method of one client, with the
\* event loop resuming each coroutine once the delay it awaits has passed.
NextLive ==
    \/ Next
    \/ \E t \in Tasks : CallQueryLandmarks(t, 1)
    \/ \E t \in Tasks : CallJustify(t, 1)

SpecLive ==
    /\ Init /\ [][NextLive]_vars
    /\ \A t \in Tasks : WF_vars(ConnectReturn(t)) /\ WF_vars(DispatchReturn(t))

\* LoopClosure(...), AppearanceMatch(...), GNCEvent(...), MedicalFinding(...):
\* an observation is constructed, with or without a timestamp argument
Construct(t) ==
    \E v \in Variants, given \in {NoneTime} \cup {Time(ts) : ts \in 0..MaxClock} :
        /\ FreeSlot(t)
        /\ tasks' = [tasks EXCEPT ![t] =
             [IdleTask EXCEPT !.pc = "done", !.op = "__post_init__",
                              !.via = "direct",
                              !.args = [NoArgs EXCEPT
                                  !.obs = v, !.given = given,
                                  !.timestamp = ObservationPostInit(v, given, clock)]]]
        /\ UNCHANGED <<connected, clock, history, demo, perception>>

\* Observations are constructed while the clock runs.
NextData ==
    \/ \E t \in Tasks : Construct(t)
    \/ \E t \in Tasks : Return(t)
    \/ Tick

SpecData == Init /\ [][NextData]_vars

\* await client.send_loop_closure(o, deadline=d), and the same for the other
\* request methods: their signatures are (self, observation) and
\* (self, query), so the call raises TypeError before the body runs
CallWithDeadline(t, c) ==
    \E op \in SendOps \cup {"query_beliefs", "get_justification"},
       d \in 0..MaxClock :
        /\ FreeSlot(t)
        /\ tasks' = [tasks EXCEPT ![t] =
             [IdleTask EXCEPT !.pc = "done", !.op = op, !.via = "direct",
                              !.client = c,
                              !.args = [NoArgs EXCEPT !.deadline = Time(d)],
                              !.startConn = connected[c],
                              !.out = Raised("TypeError",
                                  <<op, "() got an unexpected keyword argument 'deadline'">>)]]
        /\ UNCHANGED <<connected, clock, history, demo, perception>>

\* The sequential caller when it also makes calls with a deadline.
NextDeadline ==
    \/ NextSeq
    \/ AllIdle /\ \E t \in Tasks : CallWithDeadline(t, 1)

SpecDeadline == Init /\ [][NextDeadline]_vars

\* Concurrent callers of one client while the clock runs.
NextClock ==
    \/ Next
    \/ Tick

SpecClock == Init /\ [][NextClock]_vars

\* ------------------------------------------------------------ demo_all.py

\* --domain choices of main()
Domains == {"slam", "gnc", "medical", "all"}

Observation(domain, name, op) ==
    [domain |-> domain, kind |-> "observation", name |-> name, op |-> op,
     args |-> [NoArgs EXCEPT !.obs = name]]

Query(domain, concept) ==
    [domain |-> domain, kind |-> "query", name |-> concept, op |-> "query_beliefs",
     args |-> [NoArgs EXCEPT !.concept = concept, !.limit = 5,
                             !.include_justification = TRUE]]

\* the client calls of demo_slam_path, demo_gnc_path and demo_medical_path
DomainSteps(domain) ==
    CASE domain = "slam" ->
           << Observation("slam", "LoopClosure", "send_loop_closure"),
              Observation("slam", "AppearanceMatch", "send_appearance_match"),
              Query("slam", "HighConfidenceLandmark") >>
      [] domain = "gnc" ->
           << Observation("gnc", "GNCEvent", "send_gnc_event"),
              Observation("gnc", "GNCEvent", "send_gnc_event"),
              Query("gnc", "Hypothesis") >>
      [] domain = "medical" ->
           << Observation("medical", "MedicalFinding", "send_medical_finding"),
              Observation("medical", "MedicalFinding", "send_medical_finding"),
              Query("medical", "Recommendation") >>

\* the client calls a run makes between setup and the justification demo
DemoScript(domain) ==
    IF domain = "all"
    THEN DomainSteps("slam") \o DomainSteps("gnc") \o DomainSteps("medical")
    ELSE DomainSteps(domain)

\* the characters of the belief ids the mock backend uses
IdChars(belief_id) ==
    CASE belief_id = "landmark-1" ->
           <<"l", "a", "n", "d", "m", "a", "r", "k", "-", "1">>
      [] belief_id = "landmark-2" ->
           <<"l", "a", "n", "d", "m", "a", "r", "k", "-", "2">>
      [] belief_id = "hypothesis-1" ->
           <<"h", "y", "p", "o", "t", "h", "e", "s", "i", "s", "-", "1">>
      [] belief_id = "recommendation-1" ->
           <<"r", "e", "c", "o", "m", "m", "e", "n", "d", "a", "t", "i", "o", "n",
             "-", "1">>

\* demo_justification's search: the first belief of the first response, in
\* the order of the dict, that succeeded with beliefs; {} for None
TargetBelief(results) ==
    LET found == {i \in 1..Len(QueryConcepts) :
                     \E r \in results :
                         /\ r.concept = QueryConcepts[i]
                         /\ r.response.success
                         /\ r.response.beliefs # <<>>}
    IN  IF found = {} THEN {}
        ELSE LET first == CHOOSE i \in found : \A j \in found : i <= j
                 r == CHOOSE r \in results : r.concept = QueryConcepts[first]
             IN  {r.response.beliefs[1].belief_id}

\* print_summary: the two counts behind the success rate
PrintSummary(results) ==
    LET observations == {i \in 1..Len(results) : results[i].kind = "observation"}
    IN  [total |-> Cardinality(observations),
         successful |-> Cardinality({i \in observations : results[i].success})]

\* main() and setup() up to the await inside client.connect()
DemoStart ==
    \E domain \in Domains :
        /\ demo.pc = "off" /\ AllIdle
        /\ demo' = [DemoOff EXCEPT !.pc = "setup", !.domain = domain]
        /\ tasks' = [tasks EXCEPT ![1] = StartedConnect(1)]
        /\ UNCHANGED <<connected, clock, history, perception>>

\* setup() after connect() has returned.  True: the run goes on.  False:
\* run_full_demo returns False through `finally: await self.cleanup()`,
\* a single domain's main() returns 1 at once.
DemoSetupDone ==
    /\ demo.pc = "setup" /\ tasks[1].pc = "done"
    /\ tasks' = [tasks EXCEPT ![1] = IdleTask]
    /\ IF tasks[1].out.success
       THEN /\ demo' = [demo EXCEPT !.pc = "ready", !.setupOk = TRUE]
            /\ UNCHANGED connected
       ELSE /\ demo' = [demo EXCEPT !.pc = "exited", !.exit = 1,
                                        !.cleaned = (demo.domain = "all")]
            /\ connected' = IF demo.domain = "all"
                            THEN [connected EXCEPT ![1] = FALSE]
                            ELSE connected
    /\ UNCHANGED <<clock, history, perception>>

\* the next client call of the domain demos, up to its first await
DemoCall ==
    /\ demo.pc = "ready" /\ demo.step < Len(DemoScript(demo.domain))
    /\ LET step == DemoScript(demo.domain)[demo.step + 1]
       IN  tasks' = [tasks EXCEPT ![1] = Started(1, step.op, "direct", step.args)]
    /\ demo' = [demo EXCEPT !.pc = "calling"]
    /\ UNCHANGED <<connected, clock, history, perception>>

\* (mutant) a response with success=False ends the run: cleanup, exit code 1
DemoCollectAbort ==
    /\ demo.pc = "calling" /\ tasks[1].pc = "done"
    /\ tasks' = [tasks EXCEPT ![1] = IdleTask]
    /\ LET step == DemoScript(demo.domain)[demo.step + 1]
           results == Append(demo.results,
                             [domain |-> step.domain, kind |-> step.kind,
                              name |-> step.name, success |-> tasks[1].out.success])
       IN  IF tasks[1].out.success
           THEN /\ demo' = [demo EXCEPT
                       !.results = results, !.step = @ + 1,
                       !.pc = IF demo.step + 1 = Len(DemoScript(demo.domain))
                                 /\ demo.domain # "all"
                              THEN "summary" ELSE "ready"]
                /\ UNCHANGED connected
           ELSE /\ demo' = [demo EXCEPT !.results = results, !.step = @ + 1,
                                        !.pc = "exited", !.cleaned = TRUE,
                                        !.exit = 1]
                /\ connected' = [connected EXCEPT ![1] = FALSE]
    /\ UNCHANGED <<clock, history, perception>>

\* the call has returned: self.demo_results[domain].append(...), the outcome
\* is logged, and the run goes on whatever response.success is
DemoCollect ==
    /\ demo.pc = "calling" /\ tasks[1].pc = "done"
    /\ tasks' = [tasks EXCEPT ![1] = IdleTask]
    /\ LET step == DemoScript(demo.domain)[demo.step + 1]
       IN  demo' = [demo EXCEPT
               !.results = Append(@, [domain |-> step.domain, kind |-> step.kind,
                                      name |-> step.name,
                                      success |-> tasks[1].out.success]),
               !.step = @ + 1,
               !.pc = IF demo.step + 1 = Len(DemoScript(demo.domain))
                         /\ demo.domain # "all"
                      THEN "summary" ELSE "ready"]
    /\ UNCHANGED <<connected, clock, history, perception>>

\* demo_justification up to the first await of query_all_concepts(limit=2)
DemoJustification ==
    /\ demo.pc = "ready" /\ demo.step = Len(DemoScript(demo.domain))
    /\ demo.domain = "all"
    /\ tasks' = [tasks EXCEPT ![1] =
         Started(1, "query_all_concepts", "query_all_concepts",
                 [NoArgs EXCEPT !.concept = QueryConcepts[1], !.limit = 2])]
    /\ demo' = [demo EXCEPT !.pc = "query_all"]
    /\ UNCHANGED <<connected, clock, history, perception>>

\* demo_justification after query_all_concepts: with a target belief,
\* get_justification is called; without one, a warning is logged
DemoTarget ==
    /\ demo.pc = "query_all" /\ tasks[1].pc = "done"
    /\ LET target == TargetBelief(tasks[1].results)
       IN  IF target = {}
           THEN /\ tasks' = [tasks EXCEPT ![1] = IdleTask]
                /\ demo' = [demo EXCEPT !.pc = "summary", !.queriedAll = TRUE]
           ELSE /\ tasks' = [tasks EXCEPT ![1] =
                     Started(1, "get_justification", "direct",
                             [NoArgs EXCEPT
                                 !.belief_id = IdChars(CHOOSE b \in target : TRUE),
                                 !.max_depth = 5])]
                /\ demo' = [demo EXCEPT !.pc = "justify", !.queriedAll = TRUE]
    /\ UNCHANGED <<connected, clock, history, perception>>

\* get_justification has returned; its outcome is logged
DemoJustified ==
    /\ demo.pc = "justify" /\ tasks[1].pc = "done"
    /\ tasks' = [tasks EXCEPT ![1] = IdleTask]
    /\ demo' = [demo EXCEPT !.pc = "summary", !.justified = TRUE]
    /\ UNCHANGED <<connected, clock, history, perception>>

\* print_summary, `return True` / `success = True`, cleanup() with its
\* disconnect, and main's `return 0 if success else 1`
DemoFinish ==
    /\ demo.pc = "summary"
    /\ demo' = [demo EXCEPT !.pc = "exited",
                            !.summary = PrintSummary(demo.results),
                            !.cleaned = TRUE, !.exit = 0]
    /\ connected' = [connected EXCEPT ![1] = FALSE]
    /\ UNCHANGED <<clock, tasks, history, perception>>

\* One run of the demo against a backend whose calls can fail.
NextDemo ==
    \/ DemoStart
    \/ DemoSetupDone
    \/ DemoCall
    \/ DemoCollect
    \/ DemoJustification
    \/ DemoTarget
    \/ DemoJustified
    \/ DemoFinish
    \/ \E t \in Tasks : ConnectReturn(t)
    \/ \E t \in Tasks : DispatchReturn(t)
    \/ \E t \in Tasks : ConnectRaise(t)
    \/ \E t \in Tasks : DispatchRaise(t)

SpecDemo == Init /\ [][NextDemo]_vars

\* run_full_demo is between its `try:` and its return
InRunFullDemo ==
    /\ demo.domain = "all"
    /\ demo.pc \in {"setup", "ready", "calling", "query_all", "justify", "summary"}

\* (mutant) cleanup is called at the end of the try block, not in `finally`
DemoAbortNoCleanup ==
    /\ InRunFullDemo
    /\ demo' = [demo EXCEPT !.pc = "exited", !.exit = 1]
    /\ tasks' = [tasks EXCEPT ![1] = IdleTask]
    /\ UNCHANGED <<connected, clock, history, perception>>

\* run_full_demo is interrupted (KeyboardInterrupt) or a step raises
\* (Exception): the call being awaited is abandoned, the except branch
\* returns False, `finally: await self.cleanup()` disconnects, main returns 1
DemoAbort ==
    /\ InRunFullDemo
    /\ demo' = [demo EXCEPT !.pc = "exited", !.cleaned = TRUE, !.exit = 1]
    /\ tasks' = [tasks EXCEPT ![1] = IdleTask]
    /\ connected' = [connected EXCEPT ![1] = FALSE]
    /\ UNCHANGED <<clock, history, perception>>

\* A run of the demo that can also be interrupted or raise.
NextDemoAbort ==
    \/ NextDemo
    \/ DemoAbort

SpecDemoAbort == Init /\ [][NextDemoAbort]_vars

\* --------------------------------------------- the perception service

\* GPUPerceptionService(config)
NewService ==
    /\ ~perception.constructed
    /\ \E threshold \in Thresholds :
         perception' = [PerceptionOff EXCEPT !.constructed = TRUE,
                                             !.confidence_threshold = threshold]
    /\ UNCHANGED <<connected, clock, tasks, history, demo>>

\* service.process_frame(frame), called directly
CallProcessFrame ==
    /\ perception.constructed
    /\ perception.stream = "idle"
    /\ perception.frame_count < MaxFrames
    /\ \E pred \in Predictions, fails \in BOOLEAN :
         perception' = ProcessFrame(perception, pred, fails)
    /\ UNCHANGED <<connected, clock, tasks, history, demo>>

\* process_video_stream is called and the capture opens. `loop`: the caller
\* runs inside an asyncio event loop (main() does not).
StreamStart ==
    /\ perception.constructed
    /\ perception.stream = "idle"
    /\ \E loop \in BOOLEAN, display \in BOOLEAN :
         perception' = [perception EXCEPT !.stream = "reading", !.loop = loop,
                                          !.display_enabled = display]
    /\ UNCHANGED <<connected, clock, tasks, history, demo>>

\* the loop ends: finally releases the capture
StreamEnd(p, reason) ==
    [p EXCEPT !.stream = "ended", !.reason = reason]

\* cap.read() returns ret = False
StreamReadFailed ==
    /\ perception.stream = "reading"
    /\ perception' = StreamEnd(perception, "read failed")
    /\ UNCHANGED <<connected, clock, tasks, history, demo>>

\* Ctrl-C during the loop
StreamInterrupt ==
    /\ perception.stream = "reading"
    /\ perception' = StreamEnd(perception, "KeyboardInterrupt")
    /\ UNCHANGED <<connected, clock, tasks, history, demo>>

\* one pass of the loop body with a frame read: process_frame, then
\* asyncio.create_task when there are detections (RuntimeError without a
\* running event loop, which only `finally` sees), then the quit key
StreamFrame ==
    /\ perception.stream = "reading"
    /\ perception.frame_count < MaxFrames
    /\ \E pred \in Predictions, fails \in BOOLEAN, quit \in BOOLEAN :
         LET processed == ProcessFrame(perception, pred, fails)
         IN  perception' =
               IF processed.detections # <<>> /\ ~processed.loop
               THEN StreamEnd(processed, "RuntimeError")
               ELSE LET posted ==
                          IF processed.detections # <<>>
                          THEN [processed EXCEPT !.scheduled = @ + 1]
                          ELSE processed
                    IN  IF posted.display_enabled /\ quit
                        THEN StreamEnd(posted, "quit")
                        ELSE posted
    /\ UNCHANGED <<connected, clock, tasks, history, demo>>

NextPerception ==
    \/ NewService
    \/ CallProcessFrame
    \/ StreamStart
    \/ StreamReadFailed
    \/ StreamInterrupt
    \/ StreamFrame

SpecPerception == Init /\ [][NextPerception]_vars

\* ------------------------------------------------------------- properties

RequestOps == SendOps \cup {"query_beliefs", "get_justification"}

\* the coroutine in slot t is inside a connect() that a request method entered
AutoConnecting(t) ==
    tasks[t].pc = "connecting" /\ tasks[t].op \in RequestOps

\* C1: Concurrent auto-connect attempts on one client collapse into a single
\* connect: at no time are two request calls both inside their own implicit
\* connect() on the same client.
C1_AutoConnectsCollapse ==
    \A t, u \in Tasks :
        (t # u /\ AutoConnecting(t) /\ AutoConnecting(u))
            => tasks[t].client # tasks[u].client

\* C2: A submit call of any of the four variants made on a Disconnected
\* client performs exactly one implicit connect, which has returned True
\* before the observation is dispatched; a submit call made on a Connected
\* client performs no connect.  The observation is dispatched once.
C2_OneImplicitConnectBeforeDispatch ==
    \A t \in Tasks :
        tasks[t].op \in SendOps =>
            /\ tasks[t].nconn = (IF tasks[t].startConn THEN 0 ELSE 1)
            /\ tasks[t].pc = "connecting" => tasks[t].ndisp = 0
            /\ tasks[t].pc \in {"dispatching", "done"} =>
                   /\ tasks[t].ndisp = 1
                   /\ ~tasks[t].startConn => tasks[t].connOk

\* a submit that began Disconnected and a submit that began Connected have
\* both come back
C2_Witness ==
    \E t, u \in Tasks :
        /\ tasks[t].op \in SendOps /\ tasks[t].pc = "done"
        /\ ~tasks[t].startConn /\ tasks[t].nconn = 1 /\ tasks[t].out.success
        /\ tasks[u].op \in SendOps /\ tasks[u].pc = "done"
        /\ tasks[u].startConn /\ tasks[u].nconn = 0 /\ tasks[u].out.success

\* C3: connect on a client that is already Connected returns True, leaves
\* the client Connected and is a no-op: it does not run the connection
\* establishment a second time.
C3_ConnectIsNoOpWhenConnected ==
    \A t \in Tasks :
        (tasks[t].op = "connect" /\ tasks[t].startConn) =>
            /\ tasks[t].pc # "connecting"
            /\ tasks[t].nconn = 0
            /\ tasks[t].pc = "done" =>
                   (tasks[t].out.success /\ connected[tasks[t].client])

\* the acknowledgment each observation variant is answered with
AckOf(variant) ==
    CASE variant = "LoopClosure" ->
           [message |-> <<"Loop closure processed successfully">>,
            rules |-> <<"slam-rule-1", "slam-rule-2">>]
      [] variant = "AppearanceMatch" ->
           [message |-> <<"Appearance match processed successfully">>,
            rules |-> <<"slam-rule-2", "slam-rule-3">>]
      [] variant = "GNCEvent" ->
           [message |-> <<"GNC event processed successfully">>,
            rules |-> <<"gnc-rule-1", "gnc-rule-2">>]
      [] variant = "MedicalFinding" ->
           [message |-> <<"Medical finding processed successfully">>,
            rules |-> <<"medical-rule-1", "medical-rule-3">>]

\* C4: Every observation submitted through one client, also concurrently
\* with others and also from a Disconnected client, is dispatched once and
\* comes back with one response, which has success=True and is the
\* acknowledgment of that observation's own variant.
C4_EachAckIsItsOwn ==
    \A t \in Tasks :
        (tasks[t].op \in SendOps /\ tasks[t].pc = "done") =>
            /\ tasks[t].out.kind = "ObservationResponse"
            /\ tasks[t].out.success
            /\ tasks[t].ndisp = 1
            /\ tasks[t].out.message = AckOf(tasks[t].args.obs).message
            /\ tasks[t].out.triggered_rules = AckOf(tasks[t].args.obs).rules
            /\ tasks[t].out.observation_id # NoneId

\* two observations of different variants, both submitted while the client
\* was Disconnected, have both been acknowledged
C4_Witness ==
    \E t, u \in Tasks :
        /\ tasks[t].op \in SendOps /\ tasks[u].op \in SendOps
        /\ tasks[t].args.obs = "LoopClosure" /\ tasks[u].args.obs = "GNCEvent"
        /\ ~tasks[t].startConn /\ ~tasks[u].startConn
        /\ tasks[t].pc = "done" /\ tasks[u].pc = "done"
        /\ tasks[t].out.success /\ tasks[u].out.success

\* slot t holds a send_observation call whose value is none of the variants
UnsupportedCall(t) ==
    /\ tasks[t].via = "send_observation"
    /\ tasks[t].args.obs \notin Variants

\* C5: send_observation with a value that is none of the four variants
\* raises ValueError to the caller in the step it is called; it attempts no
\* connect, dispatches nothing and leaves the connection state unchanged.
C5_UnsupportedRaisesWithoutNetwork ==
    /\ [](\A t \in Tasks :
            UnsupportedCall(t) =>
                /\ tasks[t].pc = "done"
                /\ tasks[t].out.kind = "ValueError"
                /\ tasks[t].nconn = 0
                /\ tasks[t].ndisp = 0)
    /\ [][\A t \in Tasks :
            (tasks[t].pc = "idle" /\ UnsupportedCall(t)')
                => connected' = connected]_vars

\* an unsupported value has been refused while another call is in flight
C5_Witness ==
    \E t, u \in Tasks :
        /\ UnsupportedCall(t) /\ tasks[t].out.kind = "ValueError"
        /\ tasks[u].pc \in {"connecting", "dispatching"}

\* slot t holds a query_beliefs call that has returned a successful response
QueryAnswered(t) ==
    /\ tasks[t].op = "query_beliefs" /\ tasks[t].pc = "done"
    /\ tasks[t].out.kind = "BeliefResponse" /\ tasks[t].out.success

\* C6: For every BeliefQuery with limit n >= 1 and every concept, the
\* beliefs list query_beliefs returns has at most n entries.
C6_BeliefsWithinLimit ==
    \A t \in Tasks :
        (tasks[t].op = "query_beliefs" /\ tasks[t].pc = "done"
         /\ tasks[t].args.limit >= 1) =>
            Len(tasks[t].out.beliefs) <= tasks[t].args.limit

\* a query whose limit is smaller than the backend's list has been cut to it
C6_Witness ==
    \E t \in Tasks :
        /\ QueryAnswered(t)
        /\ tasks[t].args.limit = 1
        /\ Len(MockBeliefs(tasks[t].args.concept, 0)) = 2
        /\ Len(tasks[t].out.beliefs) = 1

\* the first k entries of a list
FirstEntries(seq, k) == [i \in 1..k |-> seq[i]]

JustificationAnswered(t) ==
    /\ tasks[t].op = "get_justification" /\ tasks[t].pc = "done"
    /\ tasks[t].out.kind = "JustificationResponse" /\ tasks[t].out.success

\* C8: For every belief id X, the justification_tree of a successful
\* get_justification(JustificationQuery(belief_id=X)), read back with
\* json.loads, has a belief_id member equal to X.
C8_DerivationNamesBelief ==
    \A t \in Tasks :
        JustificationAnswered(t) =>
            /\ JsonHas(tasks[t].out.tree, "belief_id")
            /\ JsonUnescape(JsonGet(tasks[t].out.tree, "belief_id"))
                   = tasks[t].args.belief_id

\* a justification came back for a belief id that json.dumps has to escape
C8_Witness ==
    \E t \in Tasks :
        /\ JustificationAnswered(t)
        /\ tasks[t].args.belief_id = <<"\"">>
        /\ JsonGet(tasks[t].out.tree, "belief_id") = <<"\\", "\"">>

\* C9: For every JustificationQuery with max_depth >= 1, the derivation of a
\* successful get_justification declares a depth of at most max_depth.
C9_DepthWithinMaxDepth ==
    \A t \in Tasks :
        (JustificationAnswered(t) /\ tasks[t].args.max_depth >= 1) =>
            JsonParseInt(JsonGet(tasks[t].out.tree, "depth"))
                <= tasks[t].args.max_depth

\* the response class each request method returns
ResponseKind(op) ==
    IF op \in SendOps THEN "ObservationResponse"
    ELSE IF op = "query_beliefs" THEN "BeliefResponse"
    ELSE "JustificationResponse"

\* the implicit connect() of the request call in slot t returned False
AutoConnectFailed(t) ==
    /\ tasks[t].op \in RequestOps /\ tasks[t].pc = "done"
    /\ tasks[t].nconn = 1 /\ ~tasks[t].connOk

\* C10: A send_*, query_beliefs or get_justification call made on a
\* Disconnected client whose auto-connect fails returns, without raising,
\* its response class with success=False and the "Not connected" message
\* (no observation id, empty beliefs, empty derivation), and nothing has
\* been dispatched.
C10_FailedAutoConnectReported ==
    \A t \in Tasks :
        AutoConnectFailed(t) =>
            /\ tasks[t].out.kind = ResponseKind(tasks[t].op)
            /\ ~tasks[t].out.success
            /\ tasks[t].out.message = <<"Not connected to CSNePS server">>
            /\ tasks[t].out.observation_id = NoneId
            /\ tasks[t].out.triggered_rules = <<>>
            /\ tasks[t].out.beliefs = <<>>
            /\ tasks[t].out.tree = {}
            /\ tasks[t].ndisp = 0

\* a query made on a Disconnected client came back after its connect failed
C10_Witness ==
    \E t \in Tasks :
        /\ AutoConnectFailed(t)
        /\ tasks[t].op = "query_beliefs"
        /\ ~tasks[t].startConn
        /\ ~connected[tasks[t].client]

\* the simulated call of the request in slot t raised, and the call is over
DispatchFailed(t) ==
    /\ tasks[t].op \in RequestOps /\ tasks[t].pc = "done"
    /\ tasks[t].raised # "none"

\* C11: When the dispatch of a send_*, query_beliefs or get_justification
\* call fails with an error, the call does not raise: it returns its own
\* response class, as on success, with success=False and a message that
\* ends in str(e) (and no observation id, beliefs or derivation).
C11_DispatchErrorReturnedInBand ==
    \A t \in Tasks :
        DispatchFailed(t) =>
            /\ tasks[t].out.kind = ResponseKind(tasks[t].op)
            /\ ~tasks[t].out.success
            /\ Len(tasks[t].out.message) = 2
            /\ tasks[t].out.message[2] = tasks[t].raised
            /\ tasks[t].out.observation_id = NoneId
            /\ tasks[t].out.beliefs = <<>>
            /\ tasks[t].out.tree = {}

\* a query whose simulated call ran out of time has come back
C11_Witness ==
    \E t \in Tasks :
        /\ DispatchFailed(t)
        /\ tasks[t].op = "query_beliefs"
        /\ tasks[t].raised = "DEADLINE_EXCEEDED"

\* a send_* call in slot t has returned its ObservationResponse
SendAnswered(t) ==
    /\ tasks[t].op \in SendOps /\ tasks[t].pc = "done"
    /\ tasks[t].out.kind = "ObservationResponse"

\* C12: In every ObservationResponse a send_* operation returns,
\* observation_id is present exactly when success is True, and a failure
\* response has an empty triggered_rules list.
C12_ObservationIdIffSuccess ==
    \A t \in Tasks :
        SendAnswered(t) =>
            /\ (tasks[t].out.observation_id # NoneId) <=> tasks[t].out.success
            /\ ~tasks[t].out.success => tasks[t].out.triggered_rules = <<>>

\* a send_* call that succeeded and carries its id has come back after an
\* earlier connect had failed on the client
C12_Witness ==
    \E t \in Tasks :
        /\ SendAnswered(t)
        /\ tasks[t].out.success
        /\ tasks[t].out.observation_id = ObsId(clock)
        /\ [client |-> tasks[t].client, event |-> "connect returned False"]
               \in history

\* C13: disconnect always succeeds and is idempotent: whenever it is called,
\* from Connected or from Disconnected, it returns None without raising and
\* the client is Disconnected afterwards.
C13_DisconnectAlwaysDisconnects ==
    [][\A t \in Tasks :
          (tasks[t].pc = "idle" /\ tasks'[t].op = "disconnect") =>
              /\ tasks'[t].pc = "done"
              /\ tasks'[t].out = Returned("None", FALSE)
              /\ ~connected'[tasks'[t].client]]_vars

\* two disconnect calls in a row have returned on one client, the first
\* made when it was Connected and the second when it was Disconnected
C13_Witness ==
    \E t, u \in Tasks :
        /\ tasks[t].op = "disconnect" /\ tasks[t].pc = "done"
        /\ tasks[u].op = "disconnect" /\ tasks[u].pc = "done"
        /\ tasks[t].client = tasks[u].client
        /\ tasks[t].startConn /\ ~tasks[u].startConn
        /\ ~connected[tasks[t].client]

\* the is_connected property
IsConnected(c) == connected[c]

\* C14: In sequential use is_connected reports the connection state: it is
\* False on a newly constructed client, connect returns True if and only if
\* is_connected is True when it returns, and is_connected is False after
\* disconnect.
C14_IsConnectedReportsState ==
    /\ \A c \in Clients : ~IsConnected(c)
    /\ [](\A t \in Tasks :
            tasks[t].pc = "done" =>
                /\ tasks[t].op = "connect" =>
                       (tasks[t].out.success <=> IsConnected(tasks[t].client))
                /\ tasks[t].op = "disconnect" =>
                       ~IsConnected(tasks[t].client))

\* a connect made on a Disconnected client has returned True and
\* is_connected is True
C14_Witness ==
    \E t \in Tasks :
        /\ tasks[t].op = "connect" /\ tasks[t].pc = "done"
        /\ ~tasks[t].startConn
        /\ tasks[t].out.success
        /\ IsConnected(tasks[t].client)

\* C15: Each send_*, query_beliefs or get_justification call makes at most
\* one dispatch attempt; when the attempt fails the call is over, the
\* failure is what it returns, and no second attempt has been made.
C15_AtMostOneDispatch ==
    \A t \in Tasks :
        tasks[t].op \in RequestOps =>
            /\ tasks[t].ndisp <= 1
            /\ tasks[t].raised # "none" =>
                   /\ tasks[t].pc = "done"
                   /\ tasks[t].ndisp = 1
                   /\ ~tasks[t].out.success

\* a send_* call whose only dispatch attempt found the backend unavailable
\* has come back
C15_Witness ==
    \E t \in Tasks :
        /\ DispatchFailed(t)
        /\ tasks[t].op \in SendOps
        /\ tasks[t].raised = "UNAVAILABLE"
        /\ tasks[t].ndisp = 1

\* the connect() that the call in slot t made has returned False
ConnectFailed(t) ==
    /\ tasks[t].pc = "done" /\ tasks[t].nconn >= 1 /\ ~tasks[t].connOk

\* C16: When a connection attempt fails, connect has retried it before it
\* returns False, and has made only a small bounded number of attempts.
C16_ConnectRetriesBounded ==
    \A t \in Tasks :
        ConnectFailed(t) => tasks[t].nconn \in 2..3

\* a connect returned False on the client at some earlier time
FailedBefore(c) ==
    [client |-> c, event |-> "connect returned False"] \in history

\* C17: A failed connect is not fatal: when connect returns False the client
\* is Disconnected; a client on which a connect has failed still accepts a
\* connect call; and a connect or auto-connect that then succeeds leaves the
\* client Connected.
C17_FailedConnectNotFatal ==
    /\ \A t \in Tasks :
           ConnectFailed(t) => ~connected[tasks[t].client]
    /\ \A c \in Clients :
           (FailedBefore(c) /\ AllIdle) => ENABLED CallConnect(1, c)
    /\ \A t \in Tasks :
           (tasks[t].pc = "done" /\ tasks[t].nconn = 1 /\ tasks[t].connOk
                /\ FailedBefore(tasks[t].client)) =>
               /\ connected[tasks[t].client]
               /\ tasks[t].op = "connect" => tasks[t].out.success

\* a connect has returned True, and the client is Connected, after an
\* earlier connect on the same client had returned False
C17_Witness ==
    \E t \in Tasks :
        /\ tasks[t].op = "connect" /\ tasks[t].pc = "done"
        /\ FailedBefore(tasks[t].client)
        /\ tasks[t].out.success
        /\ connected[tasks[t].client]

\* the concepts query_beliefs has a branch for
KnownConcepts == {"HighConfidenceLandmark", "Hypothesis", "Recommendation"}

\* C18: A query_beliefs call for a concept the backend does not know returns
\* a BeliefResponse with success=False and a message.
C18_UnknownConceptRejected ==
    \A t \in Tasks :
        (tasks[t].op = "query_beliefs" /\ tasks[t].pc = "done"
             /\ tasks[t].args.concept \notin KnownConcepts) =>
            /\ tasks[t].out.kind = "BeliefResponse"
            /\ ~tasks[t].out.success
            /\ tasks[t].out.message # <<>>

\* C19: Every belief a successful query_beliefs returns has belief_type
\* equal to the concept of the query, for every concept and limit.
C19_BeliefTypeIsConcept ==
    \A t \in Tasks :
        QueryAnswered(t) =>
            \A i \in 1..Len(tasks[t].out.beliefs) :
                tasks[t].out.beliefs[i].belief_type = tasks[t].args.concept

\* a query for Hypothesis has come back with the backend's one hypothesis
C19_Witness ==
    \E t \in Tasks :
        /\ QueryAnswered(t)
        /\ tasks[t].args.concept = "Hypothesis"
        /\ Len(tasks[t].out.beliefs) = 1

\* a LoopClosure submission through client c was accepted at some earlier time
LoopClosureAccepted(c) ==
    [client |-> c, event |-> "LoopClosure accepted"] \in history

\* the query of test_slam_workflow has come back in slot t
LandmarkQueryReturned(t) ==
    /\ tasks[t].op = "query_beliefs" /\ tasks[t].pc = "done"
    /\ tasks[t].raised = "none" /\ tasks[t].ndisp = 1
    /\ tasks[t].args.concept = "HighConfidenceLandmark"
    /\ tasks[t].args.limit = 5

\* C20: After at least one accepted LoopClosure submission through a client,
\* a query for HighConfidenceLandmark with limit 5 on that client returns
\* success=True and at least one belief of type HighConfidenceLandmark.
C20_LandmarksAfterLoopClosure ==
    \A t \in Tasks :
        (LandmarkQueryReturned(t) /\ LoopClosureAccepted(tasks[t].client)) =>
            /\ tasks[t].out.success
            /\ \E i \in 1..Len(tasks[t].out.beliefs) :
                   tasks[t].out.beliefs[i].belief_type = "HighConfidenceLandmark"

\* the landmark query with limit 5 came back after an accepted LoopClosure
C20_Witness ==
    \E t \in Tasks :
        /\ LandmarkQueryReturned(t)
        /\ LoopClosureAccepted(tasks[t].client)
        /\ Len(tasks[t].out.beliefs) = 2

\* send_observation was called in slot t with one of the four observations
RoutedObservation(t) ==
    tasks[t].via = "send_observation" /\ tasks[t].args.obs \in Variants

\* C21: For each of the four observation variants, send_observation calls
\* the submission method of exactly that variant, and what it returns is
\* that method's response: on success the acknowledgment of the variant, on
\* failure the method's own failure response.
C21_SendObservationRoutesByVariant ==
    \A t \in Tasks :
        RoutedObservation(t) =>
            /\ tasks[t].op \in SendOps
            /\ VariantOf(tasks[t].op) = tasks[t].args.obs
            /\ tasks[t].pc = "done" =>
                   /\ tasks[t].out.kind = "ObservationResponse"
                   /\ tasks[t].out.success =>
                          /\ tasks[t].out.message = AckOf(tasks[t].args.obs).message
                          /\ tasks[t].out.triggered_rules
                                 = AckOf(tasks[t].args.obs).rules
                   /\ ~tasks[t].out.success =>
                          \/ tasks[t].out.message
                                 = <<"Not connected to CSNePS server">>
                          \/ tasks[t].out.message
                                 = <<"Error sending observation: ", tasks[t].raised>>

\* send_observation has returned the acknowledgment of an AppearanceMatch
C21_Witness ==
    \E t \in Tasks :
        /\ RoutedObservation(t)
        /\ tasks[t].args.obs = "AppearanceMatch"
        /\ tasks[t].op = "send_appearance_match"
        /\ tasks[t].pc = "done"
        /\ tasks[t].out.success

\* the query with the other value of include_justification
OtherJustificationFlag(args) ==
    [args EXCEPT !.include_justification = ~@]

\* C24: The response of query_beliefs does not depend on
\* include_justification: the query that differs only in that flag gets the
\* same beliefs, success flag and message, and no belief carries an expanded
\* justification.
C24_IncludeJustificationIgnored ==
    \A t \in Tasks :
        QueryAnswered(t) =>
            /\ \E now \in 0..MaxClock :
                   tasks[t].out
                       = MockBeliefResponse(OtherJustificationFlag(tasks[t].args), now)
            /\ \A i \in 1..Len(tasks[t].out.beliefs) :
                   ~JsonHas(tasks[t].out.beliefs[i].content, "justification")

\* a query made with include_justification=True came back with two landmarks
C24_Witness ==
    \E t \in Tasks :
        /\ QueryAnswered(t)
        /\ tasks[t].args.include_justification
        /\ Len(tasks[t].out.beliefs) = 2

\* a call on client c took a step
StepOn(c) ==
    \E t \in Tasks :
        /\ tasks'[t] # tasks[t]
        /\ IF tasks[t].pc = "idle" THEN tasks'[t].client = c
                                   ELSE tasks[t].client = c

\* C22: Two client instances do not interfere: the connection state of an
\* instance changes only in a step of a call made on that instance, and a
\* request on an instance is answered by what its own connect and dispatch
\* did, whatever state the other instance is in.
C22_InstancesDoNotInterfere ==
    /\ [][\A c \in Clients : connected'[c] # connected[c] => StepOn(c)]_vars
    /\ [](\A t \in Tasks :
            (tasks[t].op \in RequestOps /\ tasks[t].pc = "done") =>
                /\ tasks[t].nconn = (IF tasks[t].startConn THEN 0 ELSE 1)
                /\ tasks[t].ndisp = 1
                /\ tasks[t].out.kind = ResponseKind(tasks[t].op)
                /\ tasks[t].out.success)

\* a send through one instance, begun while it was Disconnected, came back
\* while a disconnect on the other instance, begun Connected, has returned
C22_Witness ==
    \E t, u \in Tasks :
        /\ tasks[t].client # tasks[u].client
        /\ tasks[t].op \in SendOps /\ tasks[t].pc = "done"
        /\ ~tasks[t].startConn
        /\ tasks[u].op = "disconnect" /\ tasks[u].pc = "done"
        /\ tasks[u].startConn
        /\ connected[tasks[t].client] /\ ~connected[tasks[u].client]

\* the call in slot t, a send_*, query_beliefs or get_justification, took a step
RequestStep(t) ==
    /\ tasks'[t] # tasks[t]
    /\ IF tasks[t].pc = "idle" THEN tasks'[t].op \in RequestOps
                               ELSE tasks[t].op \in RequestOps

\* C23: send_*, query_beliefs and get_justification leave the client as it
\* was except for the connection flag, and they change the flag only by
\* auto-connecting: from Disconnected to Connected, inside their connect.
C23_RequestsOnlyAutoConnect ==
    [][\A t \in Tasks :
          RequestStep(t) =>
              \A c \in Clients :
                  \/ connected'[c] = connected[c]
                  \/ /\ c = tasks[t].client
                     /\ tasks[t].pc = "connecting"
                     /\ ~connected[c] /\ connected'[c]]_vars

\* the call in slot t is suspended in an await
Suspended(t) == tasks[t].pc \in {"connecting", "dispatching"}

\* C30: Every connect, send_*, query_beliefs and get_justification call that
\* is started eventually returns, whatever other calls run on the client,
\* and it returns one response for its one request: the response is set
\* once, when the call ends, after at most one dispatch.
C30_EveryCallReturnsOnce ==
    /\ \A t \in Tasks : Suspended(t) ~> (tasks[t].pc = "done")
    /\ [](\A t \in Tasks :
            /\ Suspended(t) => tasks[t].out = NoOutcome
            /\ tasks[t].pc = "done" =>
                   (tasks[t].out # NoOutcome /\ tasks[t].ndisp <= 1))
    /\ [][\A t \in Tasks :
            tasks[t].pc = "done" =>
                (tasks'[t].out = tasks[t].out \/ tasks'[t].pc = "idle")]_vars

\* a query and a justification request, started together on a Disconnected
\* client, have both returned
C30_Witness ==
    \E t, u \in Tasks :
        /\ tasks[t].op = "query_beliefs" /\ tasks[t].pc = "done"
        /\ tasks[u].op = "get_justification" /\ tasks[u].pc = "done"
        /\ ~tasks[t].startConn /\ ~tasks[u].startConn
        /\ tasks[t].out.success /\ tasks[u].out.success

\* an observation is constructed in slot t in this step
Constructed(t) ==
    tasks[t].pc = "idle" /\ tasks'[t].op = "__post_init__"

\* C26: Each of the four observation variants, when constructed without a
\* timestamp, holds the clock value at construction as its timestamp; when
\* constructed with a timestamp it holds that value.
C26_TimestampDefaultsToNow ==
    [][\A t \in Tasks :
          Constructed(t) =>
              /\ tasks'[t].args.given = NoneTime =>
                     tasks'[t].args.timestamp = clock
              /\ tasks'[t].args.given # NoneTime =>
                     tasks'[t].args.given = Time(tasks'[t].args.timestamp)]_vars

\* after the clock has advanced, a MedicalFinding constructed without a
\* timestamp holds the current time and a GNCEvent constructed with an
\* earlier timestamp holds the earlier one
C26_Witness ==
    \E t, u \in Tasks :
        /\ tasks[t].op = "__post_init__" /\ tasks[u].op = "__post_init__"
        /\ tasks[t].args.obs = "MedicalFinding"
        /\ tasks[t].args.given = NoneTime
        /\ tasks[t].args.timestamp = MaxClock
        /\ tasks[u].args.obs = "GNCEvent"
        /\ tasks[u].args.given = Time(0)
        /\ tasks[u].args.timestamp = 0
        /\ clock = MaxClock

\* the call in slot t was made with a deadline
HasDeadline(t) == tasks[t].args.deadline # NoneTime

\* C27: Each send_*, query_beliefs and get_justification call accepts an
\* optional deadline: a call made with one returns its response class, and
\* when the deadline has expired before the backend answered, the response
\* is a Timeout failure and the call has dispatched nothing after it.
C27_DeadlineAcceptedAndReported ==
    \A t \in Tasks :
        (HasDeadline(t) /\ tasks[t].pc = "done") =>
            /\ tasks[t].out.kind = ResponseKind(tasks[t].op)
            /\ tasks[t].ndisp = 0 =>
                   /\ ~tasks[t].out.success
                   /\ tasks[t].out.message = <<"Timeout">>

\* query_all_concepts has returned its dict in slot t
QueryAllReturned(t) ==
    tasks[t].op = "query_all_concepts" /\ tasks[t].pc = "done"

\* C25: query_all_concepts(client, limit) returns a mapping whose keys are
\* exactly HighConfidenceLandmark, Hypothesis and Recommendation, each
\* mapped to the response query_beliefs gives for that concept and limit;
\* all three are successful, and a client that was Disconnected has been
\* connected once.
C25_QueryAllConceptsMapsEachConcept ==
    \A t \in Tasks :
        QueryAllReturned(t) =>
            /\ {r.concept : r \in tasks[t].results} = KnownConcepts
            /\ Cardinality(tasks[t].results) = 3
            /\ \A r \in tasks[t].results :
                   /\ r.response.success
                   /\ \E now \in 0..MaxClock :
                          r.response
                              = MockBeliefResponse(
                                    [NoArgs EXCEPT !.concept = r.concept,
                                                   !.limit = tasks[t].args.limit],
                                    now)
            /\ tasks[t].nconn = (IF tasks[t].startConn THEN 0 ELSE 1)
            /\ tasks[t].ndisp = 3

\* query_all_concepts(client, limit=3), called on a Disconnected client, has
\* returned after one connect
C25_Witness ==
    \E t \in Tasks :
        /\ QueryAllReturned(t)
        /\ tasks[t].args.limit = 3
        /\ ~tasks[t].startConn
        /\ tasks[t].nconn = 1
        /\ connected[tasks[t].client]

\* the demo process has ended after its setup had succeeded
DemoRan == demo.pc = "exited" /\ demo.setupOk

\* some observation or query of the run was answered with success=False
DemoSawFailure ==
    \E i \in 1..Len(demo.results) : ~demo.results[i].success

\* C28: The demo command exits with code 0 exactly when every observation
\* submission and query of the selected run succeeded, and with code 1
\* otherwise.
C28_ExitCodeReflectsSuccess ==
    demo.pc = "exited" =>
        (demo.exit = 0 <=> (demo.setupOk /\ ~DemoSawFailure))

\* C29: In the demo, a response with success=False does not abort the run:
\* every step of the selected domains is still executed, in order (three for
\* a single domain; slam, gnc, medical and then the justification demo for
\* all), and the summary is printed over all of them.
C29_FailureDoesNotAbortDemo ==
    DemoRan =>
        /\ Len(demo.results) = (IF demo.domain = "all" THEN 9 ELSE 3)
        /\ \A i \in 1..Len(demo.results) :
               /\ demo.results[i].domain =
                      (IF demo.domain # "all" THEN demo.domain
                       ELSE IF i <= 3 THEN "slam"
                       ELSE IF i <= 6 THEN "gnc" ELSE "medical")
               /\ demo.results[i].kind =
                      (IF i % 3 = 0 THEN "query" ELSE "observation")
        /\ demo.domain = "all" => demo.queriedAll
        /\ demo.summary.total = (IF demo.domain = "all" THEN 6 ELSE 2)
        /\ demo.summary.successful
               = Cardinality({i \in 1..Len(demo.results) :
                                 /\ demo.results[i].kind = "observation"
                                 /\ demo.results[i].success})

\* the full demo has ended with all nine steps made and the summary
\* printed, although its first submission and its last query had failed
C29_Witness ==
    /\ DemoRan
    /\ demo.domain = "all"
    /\ Len(demo.results) = 9
    /\ ~demo.results[1].success
    /\ ~demo.results[9].success
    /\ demo.results[2].success
    /\ demo.summary.total = 6
    /\ demo.summary.successful = 5

\* disconnect has run on client c, the client is Disconnected, and every
\* connect still in flight on it was started before that disconnect
DisconnectedLast(c) ==
    /\ ~connected[c]
    /\ \E t \in Tasks : tasks[t].client = c /\ tasks[t].disconnectRan
    /\ \A t \in Tasks :
           (tasks[t].client = c /\ tasks[t].pc = "connecting") =>
               tasks[t].disconnectRan

\* C31: Once disconnect has returned and no connect or auto-connecting
\* operation is started after it, the client stays Disconnected: a connect
\* that was in flight when disconnect ran does not make it Connected.
C31_DisconnectIsFinal ==
    [][\A t \in Tasks :
          (tasks[t].pc = "connecting" /\ tasks'[t].pc # "connecting"
               /\ DisconnectedLast(tasks[t].client)) =>
              ~connected'[tasks[t].client]]_vars

\* the call in slot t produces its response in this step
Responds(t) ==
    /\ tasks[t].op \in RequestOps
    /\ tasks[t].pc = "dispatching" /\ tasks'[t].pc = "done"

\* C32: A send_*, query_beliefs or get_justification call returns
\* success=True only if the client is Connected when the response is
\* produced; a call overtaken by a disconnect reports a failure.
C32_SuccessOnlyWhileConnected ==
    [][\A t \in Tasks :
          (Responds(t) /\ tasks'[t].out.success) =>
              connected[tasks[t].client]]_vars

\* the submission in slot t was accepted
Accepted(t) ==
    /\ tasks[t].op \in SendOps /\ tasks[t].pc = "done"
    /\ tasks[t].out.kind = "ObservationResponse" /\ tasks[t].out.success

\* C33: Any two accepted submissions through the same client, whatever their
\* variants and also when issued concurrently, have different
\* observation_id values.
C33_ObservationIdsDiffer ==
    \A t, u \in Tasks :
        (t # u /\ Accepted(t) /\ Accepted(u)
             /\ tasks[t].client = tasks[u].client) =>
            tasks[t].out.observation_id # tasks[u].out.observation_id

\* C34: When a send_*, query_beliefs or get_justification call that started
\* on a Disconnected client returns a successful response and no disconnect
\* ran in the meantime, the client is Connected afterwards, and a call that
\* follows on the Connected client does not connect again.
C34_AutoConnectSticks ==
    /\ [][\A t \in Tasks :
            (Responds(t) /\ tasks'[t].out.success
                 /\ ~tasks[t].startConn /\ ~tasks[t].disconnectRan) =>
                connected'[tasks[t].client]]_vars
    /\ [][\A t \in Tasks :
            (tasks[t].pc = "idle" /\ tasks'[t].op \in RequestOps
                 /\ connected[tasks'[t].client]) =>
                (tasks'[t].pc = "dispatching" /\ tasks'[t].nconn = 0)]_vars

\* C35: A query_beliefs call with limit <= 0 returns an empty beliefs list,
\* for every concept.
C35_NonPositiveLimitIsEmpty ==
    \A t \in Tasks :
        (QueryAnswered(t) /\ tasks[t].args.limit <= 0) =>
            tasks[t].out.beliefs = <<>>

\* run_full_demo has returned
FullDemoReturned == demo.pc = "exited" /\ demo.domain = "all"

\* C36: Whenever run_full_demo returns (setup failed, a step raised, the run
\* was interrupted, or everything succeeded), cleanup has run and the
\* demo's client is Disconnected.
C36_CleanupAlwaysRuns ==
    FullDemoReturned => (demo.cleaned /\ ~connected[1])

\* the full demo was cut short after its setup and some of its steps, and
\* has returned with the client Disconnected
C36_Witness ==
    /\ FullDemoReturned
    /\ demo.setupOk
    /\ demo.step \in 1..8
    /\ demo.exit = 1
    /\ demo.cleaned /\ ~connected[1]

\* C37: Every DetectionResult returned by process_frame has confidence
\* greater than or equal to the configured confidence_threshold and carries
\* as frame_id the frame counter value of the frame it was detected in.
C37_DetectionsAboveThreshold ==
    \A i \in 1..Len(perception.detections) :
        /\ perception.detections[i].confidence >= perception.confidence_threshold
        /\ perception.detections[i].frame_id = perception.frame_count

\* a frame after the first gave one prediction below the threshold and one
\* exactly at it: only the second is returned
C37_Witness ==
    /\ perception.frame_count >= 2
    /\ Len(perception.pred) = 2
    /\ perception.pred[1] < perception.confidence_threshold
    /\ Len(perception.detections) = 1
    /\ perception.detections[1].confidence = perception.confidence_threshold

\* a step that is one process_frame call
ProcessFrameCalled == perception'.calls = perception.calls + 1

\* C38: Each process_frame call increases frame_count by exactly one, also
\* when inference fails; on failure the call returns an empty list and leaves
\* total_detections unchanged, so that total_detections always equals the
\* total number of detections returned by all process_frame calls so far.
C38_FrameCountedFailureReturnsEmpty ==
    /\ [](perception.total_detections = perception.returned)
    /\ [][ProcessFrameCalled =>
            /\ perception'.frame_count = perception.frame_count + 1
            /\ perception'.failed =>
                  /\ perception'.detections = <<>>
                  /\ perception'.total_detections = perception.total_detections
         ]_vars

\* inference failed on a frame that had predictions above the threshold,
\* after an earlier frame had returned detections
C38_Witness ==
    /\ perception.failed
    /\ perception.frame_count >= 2
    /\ perception.total_detections > 0
    /\ perception.detections = <<>>
    /\ \E i \in 1..Len(perception.pred) :
          perception.pred[i] >= perception.confidence_threshold

\* the ways the claim lets the stream loop end
StreamEnds == {"read failed", "quit", "KeyboardInterrupt"}

\* C39: In process_video_stream, whenever a frame yields at least one
\* detection, the posting of that frame's detections is scheduled and the
\* loop goes on to read the next frame; the loop ends only when a frame
\* cannot be read, the user quits with 'q', or on KeyboardInterrupt.
C39_DetectionsScheduledLoopContinues ==
    [][perception.stream = "reading" =>
          /\ (ProcessFrameCalled /\ perception'.detections # <<>>) =>
                perception'.scheduled = perception.scheduled + 1
          /\ perception'.stream = "ended" => perception'.reason \in StreamEnds
      ]_vars

====
